---------------------------- MODULE Spec2Model ----------------------------
(***************************************************************************)
(* Model of extract_failing_chips.py: header name disambiguation, failure *)
(* extraction from a wafer CSV, the coverage join of two failure sets,    *)
(* its per-test-item summary, and the command line driver.                *)
(*                                                                         *)
(* Cell texts, labels and names are TLA+ strings; "" is an empty CSV cell  *)
(* (NaN once read by pandas).  A number that may be missing is a record    *)
(* [isnum, v]; readings are integers, percentages are kept in hundredths.  *)
(***************************************************************************)
EXTENDS Integers, Sequences, FiniteSets, TLC

VARIABLES
    groups,     \* _unique_test_names: the group labels passed in
    items,      \* _unique_test_names: the item labels passed in
    names,      \* _unique_test_names: the returned list
    file,       \* parse_wafer_csv: the layout of the file passed in
    result,     \* parse_wafer_csv: what the call returned or raised
    argv,       \* main: the parsed arguments, [compare, csv]
    disk,       \* main: the layout of the file at each input path
    next,       \* main: position in args.csv of the next path to save
    df_a,       \* compare_coverage: failures of FILE_A
    df_b,       \* compare_coverage: failures of FILE_B
    tests_a,    \* compare_coverage: declared test items of FILE_A
    tests_b,    \* compare_coverage: declared test items of FILE_B
    written,    \* the files written so far, name -> rows
    printed,    \* the messages printed so far
    pc          \* position of the running call; "error" after an exception

namesVars == <<groups, items, names>>
parseVars == <<file, result>>
mainVars == <<argv, disk, next, df_a, df_b, tests_a, tests_b, written, printed>>
vars == <<namesVars, parseVars, mainVars, pc>>

(***************************************************************************)
(* Bounds of the explored inputs.                                          *)
(***************************************************************************)
MaxLabels == 3
MaxRows == 2
MaxDieRows == 2
MaxFiles == 3

GroupLabels == {"G", "H"}
ItemLabels == {"X", "X_2", "Y"}

Min(a, b) == IF a < b THEN a ELSE b

Range(s) == {s[k] : k \in 1..Len(s)}

(***************************************************************************)
(* str(int) for a non-negative integer, as the f-string formats it.        *)
(***************************************************************************)
Digit(d) == <<"0", "1", "2", "3", "4", "5", "6", "7", "8", "9">>[d + 1]

RECURSIVE Str(_)
Str(n) == IF n < 10 THEN Digit(n) ELSE Str(n \div 10) \o Digit(n % 10)

(***************************************************************************)
(* _unique_test_names                                                      *)
(***************************************************************************)
Base(g, it) == g \o "-" \o it

CountsGet(counts, base) == IF base \in DOMAIN counts THEN counts[base] ELSE 0

\* Variant of Suffix: the count is appended on the first occurrence too.
SuffixAlways(count) == "_" \o Str(count)

Suffix(count) == IF count > 1 THEN "_" \o Str(count) ELSE ""

RECURSIVE UniqueNamesLoop(_, _, _, _, _)
UniqueNamesLoop(k, n, gs, its, acc) ==
    IF k > n THEN acc.names
    ELSE LET base == Base(gs[k], its[k])
             cnt == CountsGet(acc.counts, base) + 1
             counts2 == [b \in DOMAIN acc.counts \cup {base} |->
                            IF b = base THEN cnt ELSE acc.counts[b]]
         IN UniqueNamesLoop(k + 1, n, gs, its,
                [counts |-> counts2,
                 names |-> Append(acc.names, base \o Suffix(cnt))])

_unique_test_names(gs, its) ==
    UniqueNamesLoop(1, Min(Len(gs), Len(its)), gs, its,
                    [counts |-> <<>>, names |-> <<>>])

(***************************************************************************)
(* pandas values.  A DataFrame read with header=None is a sequence of rows *)
(* of cell texts; every column of the layout mixes labels and readings, so *)
(* its cells stay text until pd.to_numeric is applied.                     *)
(***************************************************************************)
NaN == [isnum |-> FALSE, v |-> 0]
Num(n) == [isnum |-> TRUE, v |-> n]

IsNa(c) == c = ""

\* Series.astype(str): a missing cell becomes the text "nan".
AsStr(c) == IF IsNa(c) THEN "nan" ELSE c

\* pd.to_numeric(..., errors="coerce") on one cell: a numeral becomes its
\* number, anything else (missing, text) becomes NaN.  The numerals of the
\* explored files are those of 0..10.
NumeralValue == [t \in {Str(d) : d \in 0..10} |-> CHOOSE d \in 0..10 : Str(d) = t]

ToNumeric(c) == IF c \in DOMAIN NumeralValue THEN Num(NumeralValue[c]) ELSE NaN

\* Comparisons of pandas numbers: any comparison with NaN is False.
Gt(a, b) == a.isnum /\ b.isnum /\ a.v > b.v
Lt(a, b) == a.isnum /\ b.isnum /\ a.v < b.v
Ge(a, b) == a.isnum /\ b.isnum /\ a.v >= b.v
Le(a, b) == a.isnum /\ b.isnum /\ a.v <= b.v

\* The elements of s at the positions in K, in order.
SelectIdx(s, K) ==
    LET F[i \in 0..Len(s)] ==
            IF i = 0 THEN <<>>
            ELSE IF i \in K THEN Append(F[i - 1], s[i]) ELSE F[i - 1]
    IN F[Len(s)]

Width(t) == IF t = <<>> THEN 0 ELSE Len(t[1])

\* DataFrame.dropna(axis=1, how="all")
DropEmptyCols(t) ==
    LET keep == {j \in 1..Width(t) : \E r \in 1..Len(t) : ~IsNa(t[r][j])}
    IN [r \in 1..Len(t) |-> SelectIdx(t[r], keep)]

\* DataFrame.dropna(how="all").reset_index(drop=True)
DropEmptyRows(t) ==
    SelectIdx(t, {r \in 1..Len(t) : \E j \in 1..Len(t[r]) : ~IsNa(t[r][j])})

\* row.iloc[a:] and row.iloc[:b] with 0-based Python bounds.
From(row, a) == SubSeq(row, a + 1, Len(row))
UpTo(row, b) == SubSeq(row, 1, Min(b, Len(row)))

MapSeq(Op(_), s) == [k \in 1..Len(s) |-> Op(s[k])]

(***************************************************************************)
(* parse_wafer_csv                                                         *)
(***************************************************************************)
FixedCols == 8
MinRows == 6
DataStart == 5

\* Variant of Mask: a reading at a limit fails too.
MaskInclusive(value, upper, lower) == Ge(value, upper) \/ Le(value, lower)

\* mask = (data_rows[item] > upper) | (data_rows[item] < lower)
Mask(value, upper, lower) == Gt(value, upper) \/ Lt(value, lower)

Count(s, x) == Cardinality({k \in 1..Len(s) : s[k] = x})

ColOf(headers, name) == CHOOSE j \in 1..Len(headers) : headers[j] = name

\* The records of one test column: the rows selected by the mask, in row
\* order, with the column's name, unit and limits attached.
FailingOf(data, headers, item, unit, upper, lower) ==
    LET c == ColOf(headers, item)
        x == ColOf(headers, "XAdr")
        y == ColOf(headers, "YAdr")
        hit == {r \in 1..Len(data) : Mask(ToNumeric(data[r][c]), upper, lower)}
    IN MapSeq(LAMBDA row : [XAdr |-> ToNumeric(row[x]),
                            YAdr |-> ToNumeric(row[y]),
                            test_item |-> item,
                            unit |-> unit,
                            value |-> ToNumeric(row[c]),
                            limit_high |-> upper,
                            limit_low |-> lower],
              SelectIdx(data, hit))

RECURSIVE ConcatAll(_)
ConcatAll(ss) == IF ss = <<>> THEN <<>> ELSE Head(ss) \o ConcatAll(Tail(ss))

\* The only element of a one-element set: names a value computed once.
The(S) == CHOOSE v \in S : TRUE

\* Lines 55-120 of parse_wafer_csv, on the table left by the two dropna.
ParseFrame(df_all) ==
    The({ LET headers == UpTo(df_all[5], FixedCols) \o test_items
              units == MapSeq(AsStr, From(df_all[5], FixedCols))
              upper_limits == MapSeq(ToNumeric, From(df_all[3], FixedCols))
              lower_limits == MapSeq(ToNumeric, From(df_all[4], FixedCols))
              wanted == <<"XAdr", "YAdr">> \o test_items
          IN IF \E k \in 1..Len(wanted) : Count(headers, wanted[k]) = 0
             THEN [ok |-> FALSE, error |-> "KeyError", df |-> <<>>]
             ELSE IF \E k \in 1..Len(wanted) : Count(headers, wanted[k]) > 1
             THEN [ok |-> FALSE, error |-> "TypeError", df |-> <<>>]
             ELSE [ok |-> TRUE, error |-> "",
                   df |-> ConcatAll([k \in 1..Len(test_items) |->
                             FailingOf(data_rows, headers, test_items[k], units[k],
                                       upper_limits[k], lower_limits[k])])] :
          test_items \in {_unique_test_names(
                             MapSeq(AsStr, From(df_all[1], FixedCols)),
                             MapSeq(AsStr, From(df_all[2], FixedCols)))},
          data_rows \in {DropEmptyRows(From(df_all, DataStart))} })

\* The DataFrame of failures, or the exception the call ends with.
parse_wafer_csv(raw) ==
    The({ IF Len(df_all) < MinRows
          THEN [ok |-> FALSE, error |-> "ValueError", df |-> <<>>]
          ELSE ParseFrame(df_all) :
          df_all \in {DropEmptyRows(DropEmptyCols(raw))} })

\* get_test_items: the first two rows of the file as read, undropped.
get_test_items(raw) ==
    LET df_hdr == SubSeq(raw, 1, Min(2, Len(raw)))
    IN _unique_test_names(MapSeq(AsStr, From(df_hdr[1], FixedCols)),
                          MapSeq(AsStr, From(df_hdr[2], FixedCols)))

(***************************************************************************)
(* compare_coverage: the outer join and its status column.  The rows of    *)
(* the joined table are kept in left-major order; pandas sorts them by     *)
(* key, which no statement below depends on.                               *)
(***************************************************************************)
KeyOf(r) == <<r.XAdr, r.YAdr, r.test_item>>

\* One row of pd.merge(df_a, df_b, on=[XAdr, YAdr, test_item], how="outer",
\* suffixes=("_a", "_b")): the side without a match is missing.
Joined(key, a, b) ==
    [XAdr |-> key[1], YAdr |-> key[2], test_item |-> key[3],
     unit_a |-> a.unit, value_a |-> a.value,
     limit_high_a |-> a.limit_high, limit_low_a |-> a.limit_low,
     unit_b |-> b.unit, value_b |-> b.value,
     limit_high_b |-> b.limit_high, limit_low_b |-> b.limit_low]

Missing == [unit |-> "", value |-> NaN, limit_high |-> NaN, limit_low |-> NaN]

Matches(r, df) == {n \in 1..Len(df) : KeyOf(df[n]) = KeyOf(r)}

Merge(a, b) ==
    ConcatAll([m \in 1..Len(a) |->
        IF Matches(a[m], b) = {}
        THEN <<Joined(KeyOf(a[m]), a[m], Missing)>>
        ELSE MapSeq(LAMBDA rb : Joined(KeyOf(a[m]), a[m], rb),
                    SelectIdx(b, Matches(a[m], b)))])
    \o MapSeq(LAMBDA rb : Joined(KeyOf(rb), Missing, rb),
              SelectIdx(b, {n \in 1..Len(b) : Matches(b[n], a) = {}}))

NotNa(x) == x.isnum

\* Variant of status: the one-sided classifications exchanged.
StatusSwapped(row) ==
    IF NotNa(row.value_a) /\ NotNa(row.value_b) THEN "both_fail"
    ELSE IF NotNa(row.value_a) THEN "fail_in_b_only"
    ELSE "fail_in_a_only"

status(row) ==
    IF NotNa(row.value_a) /\ NotNa(row.value_b) THEN "both_fail"
    ELSE IF NotNa(row.value_a) THEN "fail_in_a_only"
    ELSE "fail_in_b_only"

WithStatus(m) ==
    MapSeq(LAMBDA row : [c \in DOMAIN row \cup {"status"} |->
                            IF c = "status" THEN status(row) ELSE row[c]], m)

CountIf(df, P(_)) == Cardinality({n \in 1..Len(df) : P(df[n])})

\* round(x, 2) of num/den*100, in hundredths of a percent, halves to even.
Percent(num, den) ==
    LET q == (num * 10000) \div den
        r == (num * 10000) % den
    IN IF 2 * r < den THEN q
       ELSE IF 2 * r > den THEN q + 1
       ELSE IF q % 2 = 0 THEN q ELSE q + 1

Hundred == 10000

\* len(merged[status == both_fail]) / len(df_a) * 100 if len(df_a) else 0.0
Coverage(merged, a) ==
    IF Len(a) # 0
    THEN Percent(CountIf(merged, LAMBDA row : row.status = "both_fail"), Len(a))
    ELSE 0

(***************************************************************************)
(* summarize_by_test_item.  One row per test_item of the joined table, in  *)
(* order of first appearance (pandas sorts the groups by name).           *)
(***************************************************************************)
RECURSIVE Distinct(_)
Distinct(s) ==
    IF s = <<>> THEN <<>>
    ELSE LET front == Distinct(SubSeq(s, 1, Len(s) - 1))
             last == s[Len(s)]
         IN IF \E k \in 1..Len(front) : front[k] = last THEN front
            ELSE Append(front, last)

\* Variant of BothFail: counts every row with a value on side B.
BothFailCountsB(grp) == CountIf(grp, LAMBDA row : NotNa(row.value_b))

\* both_fail=("status", lambda s: (s == "both_fail").sum())
BothFail(grp) == CountIf(grp, LAMBDA row : row.status = "both_fail")

\* (both_fail / fails.replace(0, pd.NA) * 100).fillna(0).round(2)
CoverageOf(both, fails) == IF fails = 0 THEN 0 ELSE Percent(both, fails)

SummaryRow(df, item, ta, tb) ==
    LET grp == SelectIdx(df, {n \in 1..Len(df) : df[n].test_item = item})
        fails_a == CountIf(grp, LAMBDA row : NotNa(row.value_a))
        fails_b == CountIf(grp, LAMBDA row : NotNa(row.value_b))
        both_fail == BothFail(grp)
        coverage_a_in_b == CoverageOf(both_fail, fails_a)
        coverage_b_in_a == CoverageOf(both_fail, fails_b)
    IN [test_item |-> item,
        fails_a |-> fails_a,
        fails_b |-> fails_b,
        both_fail |-> both_fail,
        coverage_a_in_b |-> coverage_a_in_b,
        coverage_b_in_a |-> coverage_b_in_a,
        a_fully_covered |-> (fails_a > 0) /\ (coverage_a_in_b = Hundred),
        b_fully_covered |-> (fails_b > 0) /\ (coverage_b_in_a = Hundred),
        present_in_a |-> item \in ta,
        present_in_b |-> item \in tb]

summarize_by_test_item(df, ta, tb) ==
    MapSeq(LAMBDA item : SummaryRow(df, item, ta, tb),
           Distinct(MapSeq(LAMBDA row : row.test_item, df)))

(***************************************************************************)
(* The files explored.  A file is described by its layout: the test        *)
(* columns (group, item, limits, unit), the data rows (die address and one *)
(* reading per test column), and whether the export carries an entirely    *)
(* empty row before the header or an entirely empty column.  ReadCsv is    *)
(* the table pd.read_csv(header=None, skiprows=metadata_rows) yields.      *)
(* The first leading column labels the four header rows, so none of them   *)
(* is entirely empty; every column holds some text, so pandas keeps its    *)
(* cells as read.                                                          *)
(***************************************************************************)
LeadHeaders == <<"Wafer", "Site", "XAdr", "YAdr", "Bin", "Lot", "Time", "Flag">>

Blanks(n) == [k \in 1..n |-> ""]

InsertAt(row, k, c) == SubSeq(row, 1, k - 1) \o <<c>> \o SubSeq(row, k, Len(row))

ReadCsv(f) ==
    LET lead(label) == <<label>> \o Blanks(Len(LeadHeaders) - 1)
        body ==
            << lead("Group") \o [k \in 1..Len(f.cols) |-> f.cols[k].group],
               lead("Item") \o [k \in 1..Len(f.cols) |-> f.cols[k].item],
               lead("Upper") \o [k \in 1..Len(f.cols) |-> f.cols[k].upper],
               lead("Lower") \o [k \in 1..Len(f.cols) |-> f.cols[k].lower],
               LeadHeaders \o [k \in 1..Len(f.cols) |-> f.cols[k].unit] >>
            \o [r \in 1..Len(f.rows) |->
                  <<"1", "1", f.rows[r].x, f.rows[r].y, "1", "1", "1", "1">>
                  \o f.rows[r].cells]
        wide == IF f.blankCol = 0 THEN body
                ELSE [r \in 1..Len(body) |-> InsertAt(body[r], f.blankCol, "")]
    IN IF f.blankRow THEN <<Blanks(Width(wide))>> \o wide ELSE wide

NoFile == [cols |-> <<>>, rows |-> <<>>, blankRow |-> FALSE, blankCol |-> 0]

\* Limits of the first test column: both numeric, or the upper one missing.
LimitChoices == {<<"3", "1">>, <<"", "1">>}

\* Readings: below, at the lower limit, at the upper limit, above,
\* non-numeric, missing.
CellTexts == {"0", "1", "3", "4", "x", ""}

\* Two test columns with the same group and item, so the second is G-X_2;
\* the second column takes the limits opposite to the first.
Opposite(l) ==
    <<IF l[1] = "3" THEN "" ELSE "3", IF l[2] = "1" THEN "x" ELSE "1">>

ParseCols ==
    {<<[group |-> "G", item |-> "X", upper |-> l[1], lower |-> l[2], unit |-> "mV"],
       [group |-> "G", item |-> "X", upper |-> Opposite(l)[1],
        lower |-> Opposite(l)[2], unit |-> "uA"]>> : l \in LimitChoices}

\* Up to MaxRows data rows; the r-th row is die (r, 7).
ParseFiles ==
    {[cols |-> c,
      rows |-> [r \in 1..Len(cs) |-> [x |-> Str(r), y |-> "7", cells |-> cs[r]]],
      blankRow |-> FALSE, blankCol |-> 0] :
        c \in ParseCols,
        cs \in UNION {[1..n -> [1..2 -> CellTexts]] : n \in 0..MaxRows}}

\* Files compared: two test columns PARAM-V1 and PARAM-V2 with limits
\* [1, 3], and data rows drawn from DieRows (a die may be listed twice; a
\* file without any data row is too short to parse).
CompareCols ==
    <<[group |-> "PARAM", item |-> "V1", upper |-> "3", lower |-> "1", unit |-> "V"],
      [group |-> "PARAM", item |-> "V2", upper |-> "3", lower |-> "1", unit |-> "V"]>>

DieRows ==
    {[x |-> "5", y |-> "10", cells |-> <<"4", "2">>],
     [x |-> "5", y |-> "10", cells |-> <<"2", "2">>],
     [x |-> "5", y |-> "10", cells |-> <<"2", "0">>],
     [x |-> "6", y |-> "10", cells |-> <<"4", "2">>]}

Plain(rows) == [cols |-> CompareCols, rows |-> rows, blankRow |-> FALSE, blankCol |-> 0]

CompareFiles == {Plain(rs) : rs \in UNION {[1..n -> DieRows] : n \in 0..MaxDieRows}}

\* One-row files in every export variant: an all-empty first row, an
\* all-empty column among the leading columns or between the test columns.
LayoutFiles ==
    {[cols |-> CompareCols, rows |-> <<r>>, blankRow |-> br, blankCol |-> bc] :
        r \in DieRows, br \in BOOLEAN, bc \in {0, 3, 10}}

\* Files saved one by one: no data row at all (too short to parse), or one
\* data row that passes or fails.
ListFiles == {Plain(rs) : rs \in UNION {[1..n -> DieRows] : n \in 0..1}}

(***************************************************************************)
(* Specification of _unique_test_names on equal-length label lists.        *)
(***************************************************************************)
IdleNames == groups = <<>> /\ items = <<>> /\ names = <<>>

IdleParse == file = NoFile /\ result = <<>>

IdleMain ==
    /\ argv = [compare |-> <<>>, csv |-> <<>>]
    /\ disk = <<>>
    /\ next = 1
    /\ df_a = <<>> /\ df_b = <<>>
    /\ tests_a = {} /\ tests_b = {}
    /\ written = <<>>
    /\ printed = <<>>

InitNames ==
    /\ \E n \in 0..MaxLabels :
          /\ groups \in [1..n -> GroupLabels]
          /\ items \in [1..n -> ItemLabels]
    /\ names = <<>>
    /\ IdleParse
    /\ IdleMain
    /\ pc = "call"

UniqueTestNames ==
    /\ pc = "call"
    /\ names' = _unique_test_names(groups, items)
    /\ pc' = "done"
    /\ UNCHANGED <<groups, items, parseVars, mainVars>>

NextNames == UniqueTestNames

SpecNames == InitNames /\ [][NextNames]_vars

\* C2: the list returned by _unique_test_names contains no two equal names.
NamesAreUnique ==
    pc = "done" =>
        \A i, j \in 1..Len(names) : names[i] = names[j] => i = j

\* The n-th occurrence count of position i's "{group}-{item}" string.
Occurrence(i) ==
    Cardinality({j \in 1..i : Base(groups[j], items[j]) = Base(groups[i], items[i])})

\* C3: same length and order as the input; position i holds "{group}-{item}",
\* unsuffixed on its first occurrence and followed by "_n" on its n-th.
NamesFollowOccurrence ==
    pc = "done" =>
        /\ Len(names) = Len(groups)
        /\ \A i \in 1..Len(names) :
              names[i] = IF Occurrence(i) = 1
                         THEN Base(groups[i], items[i])
                         ELSE Base(groups[i], items[i]) \o "_" \o Str(Occurrence(i))
        /\ (groups = <<"G", "G", "H">> /\ items = <<"X", "X", "X">>
               => names = <<"G-X", "G-X_2", "H-X">>)

NamesFollowOccurrenceWitness ==
    /\ pc = "done"
    /\ groups = <<"G", "G", "H">>
    /\ items = <<"X", "X", "X">>
    /\ names = <<"G-X", "G-X_2", "H-X">>

(***************************************************************************)
(* Specification of parse_wafer_csv on the files of ParseFiles.            *)
(***************************************************************************)
InitParse ==
    /\ file \in ParseFiles
    /\ result = <<>>
    /\ IdleNames
    /\ IdleMain
    /\ pc = "call"

ParseWaferCsv ==
    /\ pc = "call"
    /\ result' = parse_wafer_csv(ReadCsv(file))
    /\ pc' = "done"
    /\ UNCHANGED <<namesVars, file, mainVars>>

NextParse == ParseWaferCsv

SpecParse == InitParse /\ [][NextParse]_vars

\* The name parse_wafer_csv gives the k-th test column of the layout.
ColumnName(f, k) ==
    LET base == Base(f.cols[k].group, f.cols[k].item)
        n == Cardinality({j \in 1..k : Base(f.cols[j].group, f.cols[j].item) = base})
    IN IF n = 1 THEN base ELSE base \o "_" \o Str(n)

\* The reading of row r, column k lies strictly outside the column's limits.
OutOfLimits(f, r, k) ==
    LET v == ToNumeric(f.rows[r].cells[k])
        hi == ToNumeric(f.cols[k].upper)
        lo == ToNumeric(f.cols[k].lower)
    IN v.isnum /\ ((hi.isnum /\ v.v > hi.v) \/ (lo.isnum /\ v.v < lo.v))

RecordsOf(df, f, r, k) ==
    {n \in 1..Len(df) : /\ df[n].test_item = ColumnName(f, k)
                        /\ df[n].XAdr = ToNumeric(f.rows[r].x)
                        /\ df[n].YAdr = ToNumeric(f.rows[r].y)}

\* C1: a FailureRecord for (die, item) is emitted iff the cell is a number
\* strictly above a numeric upper limit or strictly below a numeric lower
\* limit; every emitted record's value lies strictly outside its limits.
FailureIffOutOfLimits ==
    (pc = "done" /\ file # NoFile /\ Len(file.rows) > 0) =>
        /\ result.ok
        /\ \A r \in 1..Len(file.rows), k \in 1..Len(file.cols) :
              Cardinality(RecordsOf(result.df, file, r, k))
                 = IF OutOfLimits(file, r, k) THEN 1 ELSE 0
        /\ \A n \in 1..Len(result.df) :
              LET rec == result.df[n]
              IN /\ rec.value.isnum
                 /\ \/ rec.limit_high.isnum /\ rec.value.v > rec.limit_high.v
                    \/ rec.limit_low.isnum /\ rec.value.v < rec.limit_low.v

FailureIffOutOfLimitsWitness ==
    /\ pc = "done"
    /\ file # NoFile
    /\ Len(file.rows) = 2
    /\ file.cols[1].upper = "3" /\ file.cols[1].lower = "1"
    /\ file.cols[2].upper = "" /\ file.cols[2].lower = "x"
    /\ file.rows[1].x = "1" /\ file.rows[2].x = "2"
    /\ file.rows[1].cells = <<"3", "4">>
    /\ file.rows[2].cells = <<"4", "">>
    /\ Len(result.df) = 1
    /\ result.df[1].test_item = "G-X"
    /\ result.df[1].value = Num(4)

(***************************************************************************)
(* main, compare_coverage and save_failures.  A path is "<stem>.csv".      *)
(***************************************************************************)
Stems == {"a", "b"} \cup {"f" \o Str(k) : k \in 1..MaxFiles}

PathOf(stem) == stem \o ".csv"

\* Path(path).stem
Stem(path) == CHOOSE st \in Stems : PathOf(st) = path

Put(files, name, rows) ==
    [n \in DOMAIN files \cup {name} |-> IF n = name THEN rows ELSE files[n]]

\* Variant of BothEmpty: one empty frame is enough.
BothEmptyEither(a, b) == Len(a) = 0 \/ Len(b) = 0

\* df_a.empty and df_b.empty
BothEmpty(a, b) == Len(a) = 0 /\ Len(b) = 0

\* What main does once compare_coverage or save_failures has returned.
AfterCompare == IF argv.csv = <<>> THEN "done" ELSE "csv"

CompareCoverage ==
    /\ pc = "compare"
    /\ \E file_a \in {argv.compare[1]}, file_b \in {argv.compare[2]} :
       \E ra \in {parse_wafer_csv(ReadCsv(disk[file_a]))},
          rb \in {parse_wafer_csv(ReadCsv(disk[file_b]))} :
          IF ~ra.ok \/ ~rb.ok
          THEN /\ pc' = "error"
               /\ UNCHANGED <<df_a, df_b, tests_a, tests_b, written, printed>>
          ELSE
          \E ta \in {Range(get_test_items(ReadCsv(disk[file_a])))},
             tb \in {Range(get_test_items(ReadCsv(disk[file_b])))},
             merged \in {WithStatus(Merge(ra.df, rb.df))} :
             /\ df_a' = ra.df
             /\ df_b' = rb.df
             /\ tests_a' = ta
             /\ tests_b' = tb
             /\ pc' = AfterCompare
             /\ IF BothEmpty(ra.df, rb.df)
                THEN /\ printed' = Append(printed, [msg |-> "no failures to compare"])
                     /\ UNCHANGED written
                ELSE /\ written' =
                          Put(Put(written, "coverage.csv", merged), "summary.csv",
                              summarize_by_test_item(merged, ta, tb))
                     /\ printed' = printed \o
                          <<[msg |-> "coverage", file_a |-> file_a, file_b |-> file_b,
                             percent |-> Coverage(merged, ra.df)],
                            [msg |-> "written", path |-> "coverage.csv"],
                            [msg |-> "written", path |-> "summary.csv"]>>
    /\ UNCHANGED <<namesVars, parseVars, argv, disk, next>>

\* Variant of SaveFailures: an unreadable file is skipped and the loop goes on.
SaveFailuresGoesOn ==
    /\ pc = "csv"
    /\ next <= Len(argv.csv)
    /\ \E path \in {argv.csv[next]} :
       \E df \in {parse_wafer_csv(ReadCsv(disk[path]))} :
          IF ~df.ok
          THEN /\ printed' = Append(printed, [msg |-> "skipped", path |-> path])
               /\ UNCHANGED written
          ELSE IF Len(df.df) = 0
          THEN /\ printed' = Append(printed, [msg |-> "no failures", path |-> path])
               /\ UNCHANGED written
          ELSE /\ written' = Put(written, Stem(path) \o "_failures.csv", df.df)
               /\ printed' = Append(printed,
                     [msg |-> "saved", path |-> Stem(path) \o "_failures.csv"])
    /\ next' = next + 1
    /\ pc' = IF next = Len(argv.csv) THEN "done" ELSE "csv"
    /\ UNCHANGED <<namesVars, parseVars, argv, disk, df_a, df_b, tests_a, tests_b>>

\* One pass of main's loop "for path in args.csv: save_failures(path)"; an
\* exception raised by parse_wafer_csv leaves the loop and ends the run.
SaveFailures ==
    /\ pc = "csv"
    /\ next <= Len(argv.csv)
    /\ \E path \in {argv.csv[next]} :
       \E df \in {parse_wafer_csv(ReadCsv(disk[path]))} :
          IF ~df.ok
          THEN /\ pc' = "error"
               /\ UNCHANGED <<next, written, printed>>
          ELSE /\ next' = next + 1
               /\ pc' = IF next = Len(argv.csv) THEN "done" ELSE "csv"
               /\ IF Len(df.df) = 0
                  THEN /\ printed' = Append(printed, [msg |-> "no failures", path |-> path])
                       /\ UNCHANGED written
                  ELSE /\ written' = Put(written, Stem(path) \o "_failures.csv", df.df)
                       /\ printed' = Append(printed,
                             [msg |-> "saved", path |-> Stem(path) \o "_failures.csv"])
    /\ UNCHANGED <<namesVars, parseVars, argv, disk, df_a, df_b, tests_a, tests_b>>

\* main(["--compare", "a.csv", "b.csv"]) on two files of CompareFiles.
InitCompare ==
    /\ IdleNames
    /\ IdleParse
    /\ argv = [compare |-> <<"a.csv", "b.csv">>, csv |-> <<>>]
    /\ \E fa \in CompareFiles, fb \in CompareFiles :
          disk = [q \in {"a.csv", "b.csv"} |-> IF q = "a.csv" THEN fa ELSE fb]
    /\ next = 1
    /\ df_a = <<>> /\ df_b = <<>>
    /\ tests_a = {} /\ tests_b = {}
    /\ written = <<>>
    /\ printed = <<>>
    /\ pc = "compare"

NextCompare == CompareCoverage

SpecCompare == InitCompare /\ [][NextCompare]_vars

\* The same call on two one-row files of LayoutFiles.
InitLayout ==
    /\ IdleNames
    /\ IdleParse
    /\ argv = [compare |-> <<"a.csv", "b.csv">>, csv |-> <<>>]
    /\ \E fa \in LayoutFiles, fb \in LayoutFiles :
          disk = [q \in {"a.csv", "b.csv"} |-> IF q = "a.csv" THEN fa ELSE fb]
    /\ next = 1
    /\ df_a = <<>> /\ df_b = <<>>
    /\ tests_a = {} /\ tests_b = {}
    /\ written = <<>>
    /\ printed = <<>>
    /\ pc = "compare"

SpecLayout == InitLayout /\ [][NextCompare]_vars

\* main(["f1.csv", ..., "fn.csv"]) with no --compare, each file of ListFiles.
Init ==
    /\ IdleNames
    /\ IdleParse
    /\ \E n \in 1..MaxFiles :
          /\ argv = [compare |-> <<>>, csv |-> [k \in 1..n |-> PathOf("f" \o Str(k))]]
          /\ disk \in [{PathOf("f" \o Str(k)) : k \in 1..n} -> ListFiles]
    /\ next = 1
    /\ df_a = <<>> /\ df_b = <<>>
    /\ tests_a = {} /\ tests_b = {}
    /\ written = <<>>
    /\ printed = <<>>
    /\ pc = "csv"

Next == SaveFailures

Spec == Init /\ [][Next]_vars

(***************************************************************************)
(* Statements about the coverage comparison, read off the written files.   *)
(***************************************************************************)
Keys(df) == {KeyOf(df[n]) : n \in 1..Len(df)}

\* The failure keys of a file, from its layout.
FailKeys(f) ==
    {<<ToNumeric(f.rows[p[1]].x), ToNumeric(f.rows[p[1]].y), ColumnName(f, p[2])>> :
        p \in {q \in (1..Len(f.rows)) \X (1..Len(f.cols)) : OutOfLimits(f, q[1], q[2])}}

\* The file has the six rows parse_wafer_csv asks for.
LongEnough(f) == Len(ReadCsv(f)) >= MinRows

Compared == "coverage.csv" \in DOMAIN written

CoverageRows == written["coverage.csv"]
SummaryRows == written["summary.csv"]

StatusCount(st) == CountIf(CoverageRows, LAMBDA row : row.status = st)

\* C4: the both_fail, fail_in_a_only and fail_in_b_only rows of the joined
\* table together number the distinct (XAdr, YAdr, test_item) keys of A and B.
JoinCountsDistinctKeys ==
    Compared =>
        StatusCount("both_fail") + StatusCount("fail_in_a_only")
            + StatusCount("fail_in_b_only")
          = Cardinality(Keys(df_a) \cup Keys(df_b))

\* C5: every joined row has one status, decided by which of A and B hold its
\* key; a failure of A alone is fail_in_a_only, and when no failure of A for
\* that item is matched in B its summary row has both_fail = 0 and
\* coverage_a_in_b = 0.
StatusFollowsMembership ==
    Compared =>
        /\ \A n \in 1..Len(CoverageRows) :
              LET row == CoverageRows[n]
                  k == <<row.XAdr, row.YAdr, row.test_item>>
              IN /\ row.status \in {"both_fail", "fail_in_a_only", "fail_in_b_only"}
                 /\ row.status = "both_fail" <=> (k \in Keys(df_a) /\ k \in Keys(df_b))
                 /\ row.status = "fail_in_a_only" <=> (k \in Keys(df_a) /\ k \notin Keys(df_b))
                 /\ row.status = "fail_in_b_only" <=> (k \notin Keys(df_a) /\ k \in Keys(df_b))
        /\ \A k \in Keys(df_a) \cup Keys(df_b) :
              \E n \in 1..Len(CoverageRows) : KeyOf(CoverageRows[n]) = k
        /\ \A k \in Keys(df_a) \ Keys(df_b) :
              (\A j \in Keys(df_a) \cap Keys(df_b) : j[3] # k[3]) =>
                  \E n \in 1..Len(SummaryRows) :
                      /\ SummaryRows[n].test_item = k[3]
                      /\ SummaryRows[n].both_fail = 0
                      /\ SummaryRows[n].coverage_a_in_b = 0

StatusFollowsMembershipWitness ==
    /\ Compared
    /\ Keys(df_a) = {<<Num(5), Num(10), "PARAM-V1">>}
    /\ Keys(df_b) = {}
    /\ Len(CoverageRows) = 1
    /\ CoverageRows[1].status = "fail_in_a_only"
    /\ CoverageRows[1].value_a = Num(4)
    /\ Len(SummaryRows) = 1
    /\ SummaryRows[1].fails_a = 1
    /\ SummaryRows[1].both_fail = 0
    /\ SummaryRows[1].coverage_a_in_b = 0

\* C6: in every summary row both_fail is at most fails_a and fails_b, both
\* percentages lie in [0, 100], a percentage is 0 when its denominator is 0,
\* and a side is fully covered only when it has failures.
SummaryWithinBounds ==
    Compared =>
        \A n \in 1..Len(SummaryRows) :
            LET row == SummaryRows[n]
            IN /\ row.both_fail <= row.fails_a
               /\ row.both_fail <= row.fails_b
               /\ 0 <= row.coverage_a_in_b /\ row.coverage_a_in_b <= Hundred
               /\ 0 <= row.coverage_b_in_a /\ row.coverage_b_in_a <= Hundred
               /\ row.fails_a = 0 => row.coverage_a_in_b = 0
               /\ row.fails_b = 0 => row.coverage_b_in_a = 0
               /\ row.a_fully_covered => row.fails_a > 0
               /\ row.b_fully_covered => row.fails_b > 0

SummaryWithinBoundsWitness ==
    /\ Compared
    /\ \E n \in 1..Len(SummaryRows) :
          /\ SummaryRows[n].fails_a = 0
          /\ SummaryRows[n].fails_b > 0
          /\ SummaryRows[n].coverage_a_in_b = 0
          /\ ~SummaryRows[n].a_fully_covered
    /\ \E n \in 1..Len(SummaryRows) :
          /\ SummaryRows[n].fails_a = 1
          /\ SummaryRows[n].both_fail = 1
          /\ SummaryRows[n].coverage_a_in_b = Hundred
          /\ SummaryRows[n].a_fully_covered

\* C9: the overall coverage percentage lies in [0, 100]: the both_fail rows
\* never outnumber A's FailureRecords.
OverallCoverageWithinBounds ==
    Compared =>
        /\ StatusCount("both_fail") <= Len(df_a)
        /\ \A n \in 1..Len(printed) :
              printed[n].msg = "coverage" =>
                  0 <= printed[n].percent /\ printed[n].percent <= Hundred

\* C7: with both files parsed, coverage.csv and summary.csv are written iff
\* one of the failure sets is non-empty; otherwise neither is written, the
\* "no failures to compare" notice is printed, and the run ends without error.
ReportsIffSomeFailure ==
    (pc # "compare" /\ argv.compare # <<>>
        /\ LongEnough(disk[argv.compare[1]]) /\ LongEnough(disk[argv.compare[2]])) =>
        LET some == FailKeys(disk[argv.compare[1]]) # {}
                      \/ FailKeys(disk[argv.compare[2]]) # {}
        IN /\ pc = "done"
           /\ ("coverage.csv" \in DOMAIN written) <=> some
           /\ ("summary.csv" \in DOMAIN written) <=> some
           /\ ~some => printed = <<[msg |-> "no failures to compare"]>>
           /\ some => \A n \in 1..Len(printed) : printed[n].msg # "no failures to compare"

ReportsIffSomeFailureWitness ==
    /\ pc = "done"
    /\ argv.compare = <<"a.csv", "b.csv">>
    /\ Len(disk["a.csv"].rows) = 2 /\ Len(disk["b.csv"].rows) = 1
    /\ FailKeys(disk["a.csv"]) = {} /\ FailKeys(disk["b.csv"]) = {}
    /\ written = <<>>
    /\ printed = <<[msg |-> "no failures to compare"]>>

\* C10: the names get_test_items derives are the names parse_wafer_csv gives
\* the file's test columns, so a summary row with failures on a side is
\* marked present on that side.
HeaderNamesAgree ==
    (pc = "done" /\ argv.compare # <<>>) =>
        /\ tests_a = {ColumnName(disk[argv.compare[1]], k) :
                         k \in 1..Len(disk[argv.compare[1]].cols)}
        /\ tests_b = {ColumnName(disk[argv.compare[2]], k) :
                         k \in 1..Len(disk[argv.compare[2]].cols)}
        /\ Compared =>
              \A n \in 1..Len(SummaryRows) :
                  /\ SummaryRows[n].fails_a > 0 => SummaryRows[n].present_in_a
                  /\ SummaryRows[n].fails_b > 0 => SummaryRows[n].present_in_b

(***************************************************************************)
(* Statements about main on a list of paths.                               *)
(***************************************************************************)
FileAt(k) == disk[argv.csv[k]]

OutPath(k) == Stem(argv.csv[k]) \o "_failures.csv"

Ended == pc \in {"done", "error"}

\* What save_failures prints for the k-th path when it returns.
MessageOf(k) ==
    IF FailKeys(FileAt(k)) = {}
    THEN [msg |-> "no failures", path |-> argv.csv[k]]
    ELSE [msg |-> "saved", path |-> OutPath(k)]

\* C8: each file of the list gets its <stem>_failures.csv or its "no
\* failures" notice depending on that file alone, also after an earlier
\* file could not be read.
EveryFileOnItsOwn ==
    (Ended /\ argv.compare = <<>>) =>
        \A k \in 1..Len(argv.csv) :
            LongEnough(FileAt(k)) =>
                /\ (OutPath(k) \in DOMAIN written) <=> (FailKeys(FileAt(k)) # {})
                /\ \E n \in 1..Len(printed) : printed[n] = MessageOf(k)

\* The number of leading paths of the list whose files can be read.
RECURSIVE Readable(_)
Readable(k) ==
    IF k > Len(argv.csv) \/ ~LongEnough(FileAt(k)) THEN 0 ELSE 1 + Readable(k + 1)

\* C8 amended: the files are handled in argument order, each on its own,
\* up to the first one that cannot be read; that failure ends the run, and
\* nothing is written or printed for the files after it.
FilesInOrderUntilUnreadable ==
    (Ended /\ argv.compare = <<>>) =>
        LET m == Readable(1)
        IN /\ pc = "done" <=> m = Len(argv.csv)
           /\ printed = [k \in 1..m |-> MessageOf(k)]
           /\ \A k \in 1..Len(argv.csv) :
                 (OutPath(k) \in DOMAIN written)
                    <=> (k <= m /\ FailKeys(FileAt(k)) # {})
           /\ \A k \in 1..m :
                 FailKeys(FileAt(k)) # {} => Keys(written[OutPath(k)]) = FailKeys(FileAt(k))

FilesInOrderUntilUnreadableWitness ==
    /\ pc = "error"
    /\ Len(argv.csv) = 3
    /\ FailKeys(FileAt(1)) # {}
    /\ ~LongEnough(FileAt(2))
    /\ FailKeys(FileAt(3)) # {}
    /\ DOMAIN written = {"f1_failures.csv"}
    /\ printed = <<[msg |-> "saved", path |-> "f1_failures.csv"]>>

=============================================================================
